---- MODULE Spec2Model ----
(***************************************************************************)
(* Model of spanning_tree/tree.py: ports, bridges, bridge protocol data    *)
(* units (BDPUs) and the flooding shortest_path function.                  *)
(*                                                                         *)
(* Python objects are modelled by identity: a port is an index into        *)
(* `ports`, a bridge an index into `bridges`, and the list object held in  *)
(* a BDPU's _path an index into `lists`.  copy.copy of a BDPU is shallow,  *)
(* so a copy carries the same index into `lists` as its original.          *)
(***************************************************************************)
EXTENDS Integers, Sequences, FiniteSets, TLC

VARIABLES ports, bridges, lists, ret, budget

vars == <<ports, bridges, lists, ret, budget>>

----------------------------------------------------------------------------
(* Bounds of the model *)

\* number of bridges of the topology under test
NB == 3
\* numbers of calls a behaviour of Spec makes, per operation
MaxPortConnects == 1
MaxConnects == 2
MaxElects == 1
MaxFloods == 1
\* numbers of Bridge.connect and shortest_path calls a behaviour of SpecRepeat
\* makes
RepeatConnects == 1
RepeatFloods == 2
\* number of Port() constructions a behaviour of SpecPort makes
MaxPorts == 3
\* numbers of Port.connect and elect calls a behaviour of SpecWire makes
WirePortConnects == 2
WireElects == 2

----------------------------------------------------------------------------
(* Module constants *)

_EPHEMERAL_PORT_MAX == 65535
_EPHEMERAL_PORT_MIN == 1024

\* Python's None, as a port or bridge reference
None == 0

\* the integers a caller passes as a port number, around the range's ends
Numbers ==
    {-1, 0, 1,
     _EPHEMERAL_PORT_MIN - 1, _EPHEMERAL_PORT_MIN, _EPHEMERAL_PORT_MIN + 1,
     _EPHEMERAL_PORT_MAX - 1, _EPHEMERAL_PORT_MAX, _EPHEMERAL_PORT_MAX + 1}

\* the `number` argument of Port(): absent (None) or an integer
NoNumber == [given |-> FALSE, val |-> 0]
Given(n) == [given |-> TRUE, val |-> n]
NumberArgs == {NoNumber} \cup {Given(n) : n \in Numbers}

\* Python truth value of the `number` argument: None and 0 are false
Truthy(number) == number.given /\ number.val # 0

\* random.randrange(lo, hi): any integer n with lo <= n < hi
randrange(lo, hi) == {n \in Numbers : lo <= n /\ n < hi}

\* _ephemeral_port drawing from one below the range
_ephemeral_port_low == randrange(_EPHEMERAL_PORT_MIN - 1, _EPHEMERAL_PORT_MAX)

\* the values _ephemeral_port() can return
_ephemeral_port == randrange(_EPHEMERAL_PORT_MIN, _EPHEMERAL_PORT_MAX)

----------------------------------------------------------------------------
(* Port *)

\* Port.__init__ raises ValueError("Outside port range.")
Port__init__raises(number) ==
    /\ Truthy(number)
    /\ (number.val < _EPHEMERAL_PORT_MIN \/ number.val > _EPHEMERAL_PORT_MAX)

\* the Port objects Port.__init__(number) can leave behind when it returns
Port__init__(number) ==
    IF Port__init__raises(number)
    THEN {}
    ELSE { [number   |-> n,
            listener |-> None,
            listened |-> None] :
           n \in (IF Truthy(number) THEN {number.val} ELSE _ephemeral_port) }

\* Port.connected
connected(ps, p) == ps[p].listener # None /\ ps[p].listened # None

\* Port.connect: other.listener = self, then self.listened = other
Port_connect(ps, self, other) ==
    LET ps1 == [ps EXCEPT ![other].listener = self]
    IN  [ps1 EXCEPT ![self].listened = other]

----------------------------------------------------------------------------
(* dict, kept as the sequence of its items in insertion order *)

DictHas(d, k) == \E i \in 1..Len(d) : d[i].key = k

\* d[k] = v: an existing key keeps its position, a new key goes last
DictSet(d, k, v) ==
    IF DictHas(d, k)
    THEN [i \in 1..Len(d) |-> IF d[i].key = k THEN [key |-> k, val |-> v] ELSE d[i]]
    ELSE Append(d, [key |-> k, val |-> v])

\* d.values()
DictValues(d) == [i \in 1..Len(d) |-> d[i].val]

----------------------------------------------------------------------------
(* Bridge *)

\* Bridge.__init__(name, *ports, cost)
Bridge__init__(name, ownPorts, cost) ==
    [name           |-> name,
     ports          |-> ownPorts,
     is_root        |-> FALSE,
     listened       |-> <<>>,
     listeners      |-> <<>>,
     cost           |-> cost,
     received_bdpus |-> <<>>]

\* Bridge.unallocated_port: the first owned port that is not connected
unallocated_port(ps, bs, b) ==
    LET own  == bs[b].ports
        free == {i \in 1..Len(own) : ~connected(ps, own[i])}
    IN  IF free = {} THEN None
        ELSE own[CHOOSE i \in free : \A j \in free : i <= j]

\* Bridge.set_listener; [bridges, raised]
set_listener(ps, bs, self, other) ==
    LET up == unallocated_port(ps, bs, self)
    IN  IF up = None
        THEN [bridges |-> bs, raised |-> TRUE]
        ELSE [bridges |-> [bs EXCEPT ![self].listeners =
                                DictSet(@, ps[up].number, other)],
              raised  |-> FALSE]

\* Bridge.connect; [bridges, raised].  When set_listener raises, the entry
\* already written to self._listened stays.
Bridge_connect(ps, bs, self, other) ==
    LET up == unallocated_port(ps, bs, self)
    IN  IF up = None
        THEN [bridges |-> bs, raised |-> TRUE]
        ELSE set_listener(ps,
                          [bs EXCEPT ![self].listened =
                                DictSet(@, ps[up].number, other)],
                          other, self)

\* Bridge.connect linking the two bridges' unallocated ports with Port.connect
Bridge_connect_ports_wired(ps, bs, self, other) ==
    LET up    == unallocated_port(ps, bs, self)
        theirs == unallocated_port(ps, bs, other)
    IN  IF up = None \/ theirs = None THEN ps ELSE Port_connect(ps, up, theirs)

\* the Port objects after Bridge.connect(other): connect and set_listener read
\* unallocated_port.number and write the two dicts; neither calls Port.connect
\* nor assigns a Port's listener or listened
Bridge_connect_ports(ps, bs, self, other) == ps

\* Bridge.elect
elect(bs, b) == [bs EXCEPT ![b].is_root = TRUE]

----------------------------------------------------------------------------
(* BridgeProtocolDataUnit and the flood *)

\* BridgeProtocolDataUnit.__init__ keeping one list object for every BDPU
BridgeProtocolDataUnit_shared(bridge_id, root_id, path) ==
    [bridge_id |-> bridge_id, root_id |-> root_id, total_cost |-> 0, path |-> 1]

\* BridgeProtocolDataUnit.__init__; `path` is the index of its list object
BridgeProtocolDataUnit(bridge_id, root_id, path) ==
    [bridge_id |-> bridge_id, root_id |-> root_id, total_cost |-> 0, path |-> path]

\* BridgeProtocolDataUnit.copy: copy.copy makes a new object whose fields
\* hold what the original's hold, so the same strings and integer, and in
\* `path` the same list object (the list itself is not copied)
copy(bdpu) == bdpu

\* BridgeProtocolDataUnit.add_bridge: appends to the list object
add_bridge(ls, bdpu, bridge) == [ls EXCEPT ![bdpu.path] = Append(@, bridge)]

\* BridgeProtocolDataUnit.add_cost
add_cost(bdpu, cost) == [bdpu EXCEPT !.total_cost = @ + cost]

\* Bridge.listeners handing out the bridges listened to
listeners_listened(bs, b) == DictValues(bs[b].listened)

\* the bridges a bridge forwards to, in order: Bridge.listeners
listeners(bs, b) == DictValues(bs[b].listeners)

\* the BDPU that send_bdpu hands on to the listeners
forwarded(bdpu, copied_bdpu) == bdpu

RECURSIVE send_bdpu(_, _, _, _)
RECURSIVE forward(_, _, _, _, _)

\* send_bdpu putting its record at the front of the received list
send_bdpu_front(st, self, bdpu, depth) ==
    IF depth = 0
    THEN [st EXCEPT !.overflow = TRUE]
    ELSE
    LET copied_bdpu == add_cost(copy(bdpu), st.bridges[self].cost)
        ls1 == add_bridge(st.lists, copied_bdpu, self)
        bs1 == [st.bridges EXCEPT ![self].received_bdpus = <<copied_bdpu>> \o @]
        st1 == [st EXCEPT !.bridges = bs1, !.lists = ls1]
    IN  forward(st1, listeners(bs1, self), 1, forwarded(bdpu, copied_bdpu), depth - 1)

\* send_bdpu calling itself on self, once per listener
send_bdpu_self(st, self, bdpu, depth) ==
    IF depth = 0
    THEN [st EXCEPT !.overflow = TRUE]
    ELSE
    LET copied_bdpu == add_cost(copy(bdpu), st.bridges[self].cost)
        ls1 == add_bridge(st.lists, copied_bdpu, self)
        bs1 == [st.bridges EXCEPT ![self].received_bdpus = Append(@, copied_bdpu)]
        st1 == [st EXCEPT !.bridges = bs1, !.lists = ls1]
    IN  forward(st1, [i \in 1..Len(listeners(bs1, self)) |-> self], 1,
                forwarded(bdpu, copied_bdpu), depth - 1)

\* Bridge.send_bdpu on the heap st = [bridges, lists, overflow]; `depth` is the
\* number of frames the recursion may still open.  A chain of calls longer
\* than the number of bridges visits a bridge twice, so it runs on a listener
\* cycle and never ends: `overflow` reports it.
send_bdpu(st, self, bdpu, depth) ==
    IF depth = 0
    THEN [st EXCEPT !.overflow = TRUE]
    ELSE
    LET copied_bdpu == add_cost(copy(bdpu), st.bridges[self].cost)
        ls1 == add_bridge(st.lists, copied_bdpu, self)
        bs1 == [st.bridges EXCEPT ![self].received_bdpus = Append(@, copied_bdpu)]
        st1 == [st EXCEPT !.bridges = bs1, !.lists = ls1]
    IN  forward(st1, listeners(bs1, self), 1, forwarded(bdpu, copied_bdpu), depth - 1)

\* the loop leaving after its first listener
forward_first(st, targets, i, bdpu, depth) ==
    IF i > Len(targets) \/ st.overflow
    THEN st
    ELSE send_bdpu(st, targets[i], bdpu, depth)

\* the loop `for listener in self.listeners: listener.send_bdpu(bdpu)`
forward(st, targets, i, bdpu, depth) ==
    IF i > Len(targets) \/ st.overflow
    THEN st
    ELSE forward(send_bdpu(st, targets[i], bdpu, depth), targets, i + 1, bdpu, depth)

\* the sort key of shortest_path: lambda bdpu: bdpu.total_cost
key(bdpu) == bdpu.total_cost

\* a sort step that puts x before the elements with an equal key
RECURSIVE InsertSorted_before_equal(_, _)
InsertSorted_before_equal(s, x) ==
    IF s = <<>> THEN <<x>>
    ELSE IF key(x) <= key(Head(s))
         THEN <<x>> \o s
         ELSE <<Head(s)>> \o InsertSorted_before_equal(Tail(s), x)

\* one step of list.sort: x goes before the first element with a larger key,
\* so after every element with an equal key (the sort is stable)
RECURSIVE InsertSorted(_, _)
InsertSorted(s, x) ==
    IF s = <<>> THEN <<x>>
    ELSE IF key(x) < key(Head(s))
         THEN <<x>> \o s
         ELSE <<Head(s)>> \o InsertSorted(Tail(s), x)

RECURSIVE SortFirst(_, _)
SortFirst(s, n) ==
    IF n = 0 THEN <<>> ELSE InsertSorted(SortFirst(s, n - 1), s[n])

\* list.sort(key=lambda bdpu: bdpu.total_cost)
sort(s) == SortFirst(s, Len(s))

\* shortest_path(root_bridge, sending_bridge) on the bridges bs and lists ls:
\* [bridges, lists, overflow, raised, value, bdpu], value the list object
\* returned.  Bridge.received_bdpus hands out a copy of the stored list, so
\* the sort leaves the stored list as it is.
shortest_path(bs, ls, root_bridge, sending_bridge) ==
    LET path  == Len(ls) + 1
        bdpu  == BridgeProtocolDataUnit(bs[sending_bridge].name,
                                        bs[root_bridge].name, path)
        st    == send_bdpu([bridges |-> bs, lists |-> Append(ls, <<>>),
                            overflow |-> FALSE],
                           sending_bridge, bdpu, Len(bs))
        received_bdpus == sort(st.bridges[root_bridge].received_bdpus)
    IN  [bridges  |-> st.bridges,
         lists    |-> st.lists,
         overflow |-> st.overflow,
         raised   |-> received_bdpus = <<>>,
         value    |-> IF received_bdpus = <<>> THEN None ELSE received_bdpus[1].path,
         bdpu     |-> bdpu]

----------------------------------------------------------------------------
(* State *)

Bridges == 1..NB

\* what the last call was and how it ended; `value` is what it returned and
\* `bdpu` the BDPU that shortest_path made and handed to send_bdpu
Ret(op, a, b, outcome, value, bdpu) ==
    [op |-> op, a |-> a, b |-> b, outcome |-> outcome, value |-> value, bdpu |-> bdpu]

NoRet == Ret("none", None, None, "ok", None, None)

\* the calls still to be made, per operation
Budget(port, connect, el, flood) ==
    [port |-> port, connect |-> connect, elect |-> el, flood |-> flood]

\* costs of the bridges: the default cost 1 everywhere, or all different
CostAssignments == {[b \in Bridges |-> 1], [b \in Bridges |-> b]}

\* The topology's objects as the test builds them: one bridge with the two
\* explicit ports Port(1024), Port(1025) (ports 1 and 2 of bridge 1), every
\* other bridge b with the default [Port()] (port b + 1).  The number drawn
\* for a default port is the key of the only entry its bridge's dicts can
\* hold, so one draw stands for all of them.
Constructed ==
    /\ ports \in
         {ps \in [1..(NB + 1) -> UNION {Port__init__(n) : n \in NumberArgs}] :
            /\ ps[1] \in Port__init__(Given(_EPHEMERAL_PORT_MIN))
            /\ ps[2] \in Port__init__(Given(_EPHEMERAL_PORT_MIN + 1))
            /\ \A p \in 3..(NB + 1) :
                  /\ ps[p] \in Port__init__(NoNumber)
                  /\ ps[p].number = _EPHEMERAL_PORT_MIN}
    /\ \E cost \in CostAssignments :
          bridges = [b \in Bridges |->
                       Bridge__init__(b, IF b = 1 THEN <<1, 2>> ELSE <<b + 1>>, cost[b])]
    /\ lists = <<>>
    /\ ret = NoRet

Init ==
    /\ Constructed
    /\ budget = Budget(MaxPortConnects, MaxConnects, MaxElects, MaxFloods)

\* Port.connect(other) on two ports of the topology
PortConnect(self, other) ==
    /\ budget.port > 0
    /\ ports' = Port_connect(ports, self, other)
    /\ ret' = Ret("Port.connect", None, None, "ok", None, None)
    /\ budget' = [budget EXCEPT !.port = @ - 1]
    /\ UNCHANGED <<bridges, lists>>

\* Bridge.connect(other)
BridgeConnect(self, other) ==
    /\ budget.connect > 0
    /\ LET r == Bridge_connect(ports, bridges, self, other)
       IN  /\ bridges' = r.bridges
           /\ ret' = Ret("Bridge.connect", None, None,
                         IF r.raised THEN "ValueError" ELSE "ok", None, None)
    /\ ports' = Bridge_connect_ports(ports, bridges, self, other)
    /\ budget' = [budget EXCEPT !.connect = @ - 1]
    /\ UNCHANGED lists

\* Bridge.elect()
Elect(b) ==
    /\ budget.elect > 0
    /\ bridges' = elect(bridges, b)
    /\ ret' = Ret("Bridge.elect", None, None, "ok", None, None)
    /\ budget' = [budget EXCEPT !.elect = @ - 1]
    /\ UNCHANGED <<ports, lists>>

\* shortest_path(root_bridge, sending_bridge).  A listener cycle reachable from
\* the sender never lets the flood return (the recursion has no base case);
\* the call is modelled on the topologies on which it returns.
ShortestPath(root_bridge, sending_bridge) ==
    /\ budget.flood > 0
    /\ LET r == shortest_path(bridges, lists, root_bridge, sending_bridge)
       IN  /\ ~r.overflow
           /\ bridges' = r.bridges
           /\ lists' = r.lists
           /\ ret' = Ret("shortest_path", root_bridge, sending_bridge,
                         IF r.raised THEN "IndexError" ELSE "ok", r.value, r.bdpu)
    /\ budget' = [budget EXCEPT !.flood = @ - 1]
    /\ UNCHANGED ports

Next ==
    \/ \E self, other \in 1..Len(ports) : PortConnect(self, other)
    \/ \E self, other \in Bridges : BridgeConnect(self, other)
    \/ \E b \in Bridges : Elect(b)
    \/ \E root_bridge, sending_bridge \in Bridges :
          ShortestPath(root_bridge, sending_bridge)

Spec == Init /\ [][Next]_vars

\* the same calls, with fewer connects and more floods
InitRepeat ==
    /\ Constructed
    /\ budget = Budget(MaxPortConnects, RepeatConnects, MaxElects, RepeatFloods)

SpecRepeat == InitRepeat /\ [][Next]_vars

\* the same calls, with more Port.connect and elect calls
InitWire ==
    /\ Constructed
    /\ budget = Budget(WirePortConnects, RepeatConnects, WireElects, MaxFloods)

SpecWire == InitWire /\ [][Next]_vars

----------------------------------------------------------------------------
(* Port construction on its own *)

InitPort ==
    /\ ports = <<>>
    /\ bridges = <<>>
    /\ lists = <<>>
    /\ ret = NoRet
    /\ budget = Budget(0, 0, 0, 0)

\* Port(number): the new port joins the ports that exist, or the call raises
NewPort(number) ==
    /\ Len(ports) < MaxPorts
    /\ IF Port__init__raises(number)
       THEN /\ ports' = ports
            /\ ret' = Ret("Port", number, None, "ValueError", None, None)
       ELSE \E port \in Port__init__(number) :
            /\ ports' = Append(ports, port)
            /\ ret' = Ret("Port", number, None, "ok", Len(ports) + 1, None)
    /\ UNCHANGED <<bridges, lists, budget>>

NextPort == \E number \in NumberArgs : NewPort(number)

SpecPort == InitPort /\ [][NextPort]_vars

----------------------------------------------------------------------------
(* Properties *)

Last(s) == s[Len(s)]

Range(s) == {s[i] : i \in 1..Len(s)}

\* the bridges met by following the only listener of each bridge from b, for
\* at most n links; the walk stops at a bridge with no or several listeners
RECURSIVE Walk(_, _, _)
Walk(bs, b, n) ==
    IF n = 0 \/ Len(bs[b].listeners) # 1
    THEN <<b>>
    ELSE <<b>> \o Walk(bs, bs[b].listeners[1].val, n - 1)

\* from sender, every bridge has one listener up to root, which has none
ChainToRoot(bs, root_bridge, sending_bridge) ==
    LET w == Walk(bs, sending_bridge, NB)
    IN  Last(w) = root_bridge /\ Len(bs[root_bridge].listeners) = 0

\* every flood so far ran as it runs on the topology as it is now, and was
\* started by a shortest_path call for the root r
SameTopology(r) ==
    /\ \A i \in 1..Len(lists) : lists[i] = Walk(bridges, lists[i][1], NB)
    /\ \A b \in Bridges : \A i \in 1..Len(bridges[b].received_bdpus) :
          bridges[b].received_bdpus[i].root_id = bridges[r].name

RECURSIVE SumCost(_, _)
SumCost(bs, path) ==
    IF path = <<>> THEN 0 ELSE bs[Head(path)].cost + SumCost(bs, Tail(path))

\* the listener links: <<b, i>> is the i-th entry of b's listeners
Links(bs) == UNION {{<<b, i>> : i \in 1..Len(bs[b].listeners)} : b \in Bridges}

Target(bs, l) == bs[l[1]].listeners[l[2]].val

\* the listener-paths from s to x, each a sequence of consecutive links
ListenerPaths(bs, s, x) ==
    {w \in UNION {[1..n -> Links(bs)] : n \in 0..(NB - 1)} :
        IF Len(w) = 0 THEN s = x
        ELSE /\ w[1][1] = s
             /\ \A i \in 1..(Len(w) - 1) : Target(bs, w[i]) = w[i + 1][1]
             /\ Target(bs, Last(w)) = x}

IsPrefix(s, t) == Len(s) <= Len(t) /\ \A i \in 1..Len(s) : s[i] = t[i]

\* C1: on a tree topology whose root the sender reaches through listener
\* links, every shortest_path call, also one that follows earlier calls on the
\* same topology, returns a path that starts with its sender and ends with
\* the root.
C1_PathFromSenderToRoot ==
    (/\ ret.op = "shortest_path"
     /\ ChainToRoot(bridges, ret.a, ret.b)
     /\ SameTopology(ret.a))
    => /\ ret.outcome = "ok"
       /\ lists[ret.value] # <<>>
       /\ Head(lists[ret.value]) = ret.b
       /\ Last(lists[ret.value]) = ret.a

\* C2: the first flood on a topology in which the sender's listener chain
\* leads to a root without listener makes shortest_path return exactly that
\* chain, sender first and root last.
C2_FreshPathIsChain ==
    (/\ ret.op = "shortest_path"
     /\ Len(lists) = 1
     /\ ChainToRoot(bridges, ret.a, ret.b))
    => /\ ret.outcome = "ok"
       /\ lists[ret.value] = Walk(bridges, ret.b, NB)

\* a first flood along a chain of two or more bridges, with a bridge of
\* another branch hanging on the chain above the sender
C2_Witness ==
    /\ ret.op = "shortest_path"
    /\ Len(lists) = 1
    /\ ChainToRoot(bridges, ret.a, ret.b)
    /\ ret.a # ret.b
    /\ \E b \in Bridges :
          /\ b \notin Range(Walk(bridges, ret.b, NB))
          /\ \E x \in Range(listeners(bridges, b)) :
                x \in Range(Walk(bridges, ret.b, NB)) /\ x # ret.b

\* C3: the total_cost of the record shortest_path selects at the root is the
\* sum of the costs of the bridges in that record's path.
C3_TotalCostIsSumOfPath ==
    (ret.op = "shortest_path" /\ ret.outcome = "ok")
    => LET selected == sort(bridges[ret.a].received_bdpus)[1]
       IN  selected.total_cost = SumCost(bridges, lists[selected.path])

\* C4: a Bridge.connect call involving a bridge that has as many listeners
\* entries as it owns ports (so it took part in that many successful
\* connections) raises ValueError.
C4_ConnectRaisesWhenExhausted ==
    [][\A self, other \in Bridges :
         (/\ BridgeConnect(self, other)
          /\ \E b \in {self, other} :
                Len(bridges[b].listeners) >= Len(bridges[b].ports))
         => ret'.outcome = "ValueError"]_vars

\* C5: Port(number) with a number outside [1024, 65535], 0 and negative
\* numbers included, raises ValueError.
C5_OutOfRangeRejected ==
    (/\ ret.op = "Port"
     /\ ret.a.given
     /\ (ret.a.val < _EPHEMERAL_PORT_MIN \/ ret.a.val > _EPHEMERAL_PORT_MAX))
    => ret.outcome = "ValueError"

\* C6: every port that exists has a number within [1024, 65535].
C6_PortNumbersInRange ==
    \A p \in 1..Len(ports) :
        /\ ports[p].number >= _EPHEMERAL_PORT_MIN
        /\ ports[p].number <= _EPHEMERAL_PORT_MAX

\* an auto-numbered port was just made, next to one with a supplied number
C6_Witness ==
    /\ ret.op = "Port"
    /\ ret.outcome = "ok"
    /\ ~Truthy(ret.a)
    /\ Len(ports) >= 2
    /\ ports[1].number = _EPHEMERAL_PORT_MAX

\* C7: when the root has received no BDPU at the end of the flood,
\* shortest_path ends with a NotFound error, not with an index fault.
C7_NotFoundWhenRootUnreached ==
    (ret.op = "shortest_path" /\ bridges[ret.a].received_bdpus = <<>>)
    => ret.outcome = "NotFound"

\* C8: after send_bdpu, all forwarding included, the BDPU passed to it holds
\* what it held before the call: the empty path and total_cost 0 that
\* shortest_path made it with.
C8_OriginalBdpuUnchanged ==
    ret.op = "shortest_path"
    => /\ lists[ret.bdpu.path] = <<>>
       /\ ret.bdpu.total_cost = 0

\* C9: a successful Bridge.connect(other) adds other to self's listened map
\* and self to other's listeners map, and every bridge that was in either map
\* is still in it.
C9_ConnectKeepsEarlierEntries ==
    [][\A self, other \in Bridges :
         (BridgeConnect(self, other) /\ ret'.outcome = "ok")
         => /\ other \in Range(DictValues(bridges'[self].listened))
            /\ self \in Range(DictValues(bridges'[other].listeners))
            /\ \A b \in Bridges :
                  /\ Range(DictValues(bridges[b].listened))
                        \subseteq Range(DictValues(bridges'[b].listened))
                  /\ Range(DictValues(bridges[b].listeners))
                        \subseteq Range(DictValues(bridges'[b].listeners))]_vars

\* C10: a flood appends to each bridge's received list one record per
\* listener-path from the sender to that bridge, after the records already
\* there; a bridge no listener-path leads to keeps its list.
C10_OneRecordPerListenerPath ==
    [][Len(lists') = Len(lists) + 1
       => \A b \in Bridges :
             /\ IsPrefix(bridges[b].received_bdpus, bridges'[b].received_bdpus)
             /\ Len(bridges'[b].received_bdpus)
                   = Len(bridges[b].received_bdpus)
                     + Cardinality(ListenerPaths(bridges, ret'.b, b))]_vars

\* a flood from a bridge with two listener links has run: one bridge got two
\* records, another bridge none
C10_Witness ==
    /\ ret.op = "shortest_path"
    /\ Len(bridges[ret.b].listeners) = 2
    /\ \E b \in Bridges : Cardinality(ListenerPaths(bridges, ret.b, b)) = 2
    /\ \E b \in Bridges :
          /\ ListenerPaths(bridges, ret.b, b) = {}
          /\ bridges[b].received_bdpus = <<>>

\* the bridges reached from the bridges of S over one to n listener links
RECURSIVE ReachedFrom(_, _, _)
ReachedFrom(bs, S, n) ==
    LET next == UNION {Range(DictValues(bs[b].listeners)) : b \in S}
    IN  IF n = 0 THEN {} ELSE next \cup ReachedFrom(bs, next, n - 1)

\* no bridge reaches itself over listener links
Acyclic(bs) == \A b \in Bridges : b \notin ReachedFrom(bs, {b}, NB)

\* C11: when the listener relation is acyclic, the flood that shortest_path
\* starts on any bridge ends, within chains of calls no longer than the number
\* of bridges, so that every shortest_path call returns or raises.
C11_FloodEndsOnAcyclic ==
    Acyclic(bridges)
    => \A root_bridge, sending_bridge \in Bridges :
          ~shortest_path(bridges, lists, root_bridge, sending_bridge).overflow

\* a flood has run up a chain of listeners that holds every bridge
C11_Witness ==
    /\ ret.op = "shortest_path"
    /\ Acyclic(bridges)
    /\ Len(Walk(bridges, ret.b, NB)) = NB
    /\ lists[ret.bdpu.path] = Walk(bridges, ret.b, NB)

\* the index of the earliest record of recs with the least total_cost
EarliestCheapest(recs) ==
    CHOOSE i \in 1..Len(recs) :
        /\ \A j \in 1..Len(recs) : recs[i].total_cost <= recs[j].total_cost
        /\ \A j \in 1..(i - 1) : recs[j].total_cost > recs[i].total_cost

\* C12: shortest_path returns the path of the record with the least
\* total_cost in the root's received list, the earliest arrived of them when
\* several have it; it raises only when the list is empty.
C12_ReturnsEarliestCheapest ==
    ret.op = "shortest_path"
    => LET recs == bridges[ret.a].received_bdpus
       IN  IF recs = <<>>
           THEN ret.outcome # "ok"
           ELSE /\ ret.outcome = "ok"
                /\ ret.value = recs[EarliestCheapest(recs)].path

\* the root holds records of two floods with the same total_cost and
\* different path lists, and the call returned the first one's
C12_Witness ==
    /\ ret.op = "shortest_path"
    /\ ret.outcome = "ok"
    /\ \E i, j \in 1..Len(bridges[ret.a].received_bdpus) :
          /\ i < j
          /\ bridges[ret.a].received_bdpus[i].total_cost
                = bridges[ret.a].received_bdpus[j].total_cost
          /\ bridges[ret.a].received_bdpus[i].path
                # bridges[ret.a].received_bdpus[j].path
          /\ lists[bridges[ret.a].received_bdpus[i].path]
                # lists[bridges[ret.a].received_bdpus[j].path]
          /\ ret.value = bridges[ret.a].received_bdpus[i].path

\* C13: whatever is called, each bridge's received list keeps the records
\* it holds, in their order, and only gains records at its end; shortest_path,
\* which sorts what it reads, leaves the root's stored list in arrival order.
C13_ReceivedOnlyAppended ==
    [][\A b \in Bridges :
         IsPrefix(bridges[b].received_bdpus, bridges'[b].received_bdpus)]_vars

\* a second flood has added a record behind the first flood's record at the
\* root, which is still the first of the stored list
C13_Witness ==
    /\ ret.op = "shortest_path"
    /\ Len(lists) = 2
    /\ Len(bridges[ret.a].received_bdpus) = 2
    /\ bridges[ret.a].received_bdpus[1].path = 1
    /\ bridges[ret.a].received_bdpus[2].path = 2

\* C14: after any Port.connect calls, reconnections included, port A's
\* listened reference is port B exactly when B's listener reference is A.
C14_PortLinkSymmetric ==
    \A A, B \in 1..Len(ports) :
        ports[A].listened = B <=> ports[B].listener = A

\* C15: after any elect calls, at most one bridge has is_root true.
C15_AtMostOneRoot ==
    Cardinality({b \in Bridges : bridges[b].is_root}) <= 1

\* C16: when shortest_path(root, sender) is called again with the same
\* arguments right after it returned, so on the same topology, the second
\* call ends as the first did and the path it returns is equal to the path
\* the first call returned, although the second flood adds records.
C16_RepeatedCallSamePath ==
    [][(/\ ret.op = "shortest_path"
        /\ ret'.op = "shortest_path"
        /\ budget'.flood = budget.flood - 1
        /\ ret'.a = ret.a
        /\ ret'.b = ret.b)
       => /\ ret'.outcome = ret.outcome
          /\ ret.outcome = "ok" => lists'[ret'.value] = lists[ret.value]
          /\ \E b \in Bridges :
                Len(bridges'[b].received_bdpus) > Len(bridges[b].received_bdpus)]_vars

\* two floods from the same sender for the same root over a link made before
\* the first of them, the only link there can be
C16_Witness ==
    /\ ret.op = "shortest_path"
    /\ ret.outcome = "ok"
    /\ ret.a # ret.b
    /\ budget.connect = 0
    /\ Len(lists) = 2
    /\ Len(lists[1]) = 2
    /\ lists[ret.value] = <<ret.b, ret.a>>
    /\ LET sent == bridges[ret.b].received_bdpus
           got  == bridges[ret.a].received_bdpus
       IN  /\ Len(sent) = 2 /\ Len(got) = 2
           /\ sent[1].path = 1 /\ sent[2].path = 2
           /\ \A i \in 1..2 : sent[i].root_id = bridges[ret.a].name

\* C17: Bridge.connect (with the set_listener call it makes) leaves every
\* Port's listener and listened as they were, so it changes no bridge's
\* unallocated_port; and as long as Port.connect has not been called, no port
\* is connected and every bridge's unallocated_port is its first port, however
\* many bridge connects were made.
C17_BridgeConnectLeavesPorts ==
    /\ [][(ret'.op = "Bridge.connect" /\ budget'.connect = budget.connect - 1)
          => /\ ports' = ports
             /\ \A b \in Bridges :
                   unallocated_port(ports', bridges', b)
                       = unallocated_port(ports, bridges, b)]_vars
    /\ [](budget.port = MaxPortConnects
          => /\ \A p \in 1..Len(ports) :
                   ports[p].listener = None /\ ports[p].listened = None
             /\ \A b \in Bridges :
                   unallocated_port(ports, bridges, b) = bridges[b].ports[1])

\* every bridge connect made and none raised, no Port.connect made, and a
\* bridge that is on both sides of links still offers its first port
C17_Witness ==
    /\ ret.op = "Bridge.connect"
    /\ ret.outcome = "ok"
    /\ budget.connect = 0
    /\ budget.port = MaxPortConnects
    /\ \E b \in Bridges :
          /\ bridges[b].listeners # <<>>
          /\ bridges[b].listened # <<>>
          /\ Len(bridges[b].ports) = 2
          /\ unallocated_port(ports, bridges, b) = bridges[b].ports[1]
          /\ ~connected(ports, bridges[b].ports[1])

====
